---------------------------- MODULE Spec2Model ----------------------------
(***************************************************************************)
(* Kern County weekly podcast generator: scraper (kern_scraper.py), AI     *)
(* processor (ai_processor.py), file emitter (notebooklm_generator.py)     *)
(* and the run script (main.py), as one state machine.                     *)
(*                                                                         *)
(* Spec is a run of main; SpecPM is process_meetings, then generate_files,  *)
(* on any list of records; SpecParse is _parse_granicus_meeting on any      *)
(* element and window; SpecLegistar is _scrape_legistar on any page of      *)
(* anchors and any window.  A remote call is two steps, the request and     *)
(* its answer, with the caller waiting in between.                          *)
(*                                                                         *)
(* Time is counted in ticks, TicksPerDay to the civil day, on the axis of  *)
(* days since 1970-01-01.  A Python datetime is [t, aware]; a date string  *)
(* is a record of its printed fields, so that isoformat, strptime and      *)
(* fromisoformat are conversions between two representations.              *)
(***************************************************************************)
EXTENDS Integers, Sequences, FiniteSets, TLC

VARIABLES
    pc,                 \* position of the run
    now,                \* the wall clock (datetime.now())
    elapsed,            \* ticks the clock advanced since the run started
    week_start,         \* main.week_start (a naive datetime, in ticks)
    week_end,           \* main.week_end
    src_i,              \* index of the next source of scrape_weekly_meetings
    fetched,            \* per source: what session.get returned to the scraper
    all_meetings,       \* scrape_weekly_meetings.all_meetings
    meetings_data,      \* the list handed to process_meetings
    k,                  \* loop index inside process_meetings
    upcoming,           \* process_meetings.upcoming
    recent,             \* process_meetings.recent
    processed_upcoming, \* _process_upcoming_meetings.processed
    processed_recent,   \* _process_recent_meetings.processed
    themes,             \* value returned by _find_common_themes
    processed_data,     \* the bundle process_meetings returns
    last_reply,         \* the last answer of the completion endpoint
    ai_calls,           \* number of chat.completions.create calls made
    files,              \* output files written, in order of writing
    in_flight,          \* requests sent and not yet answered
    ai_failures         \* number of chat.completions.create calls that raised

vars == <<pc, now, elapsed, week_start, week_end, src_i, fetched, all_meetings,
          meetings_data, k, upcoming, recent, processed_upcoming,
          processed_recent, themes, processed_data, last_reply, ai_calls,
          files, in_flight, ai_failures>>

---------------------------------------------------------------------------
(* Bounds of the model *)

\* resolution of the clock: ticks per civil day (tick 0 is 00:00)
TicksPerDay == 2

\* ticks the wall clock may advance during one run
MaxElapsed == 2

\* longest list handed directly to process_meetings
MaxMeetings == 2

\* most anchors on a calendar page handed directly to _scrape_legistar
MaxLinks == 2

---------------------------------------------------------------------------
(* The calendar of Python's datetime (proleptic Gregorian) *)

IsLeap(y) == (y % 4 = 0 /\ y % 100 # 0) \/ y % 400 = 0

DaysInMonth(y, m) ==
    IF m = 2 THEN (IF IsLeap(y) THEN 29 ELSE 28)
    ELSE IF m \in {4, 6, 9, 11} THEN 30 ELSE 31

\* what datetime accepts as year, month, day
ValidDate(y, m, d) ==
    /\ y \in 1..9999
    /\ m \in 1..12
    /\ d \in 1..DaysInMonth(y, m)

\* days since 1970-01-01 of a valid civil date
DaysFromCivil(y, m, d) ==
    LET yy  == IF m <= 2 THEN y - 1 ELSE y
        era == yy \div 400
        yoe == yy - era * 400
        mp  == (m + 9) % 12
        doy == (153 * mp + 2) \div 5 + d - 1
        doe == yoe * 365 + yoe \div 4 - yoe \div 100 + doy
    IN  era * 146097 + doe - 719468

\* the civil date of a day number
CivilFromDays(z) ==
    LET zz  == z + 719468
        era == zz \div 146097
        doe == zz - era * 146097
        yoe == (doe - doe \div 1460 + doe \div 36524 - doe \div 146096) \div 365
        doy == doe - (365 * yoe + yoe \div 4 - yoe \div 100)
        mp  == (5 * doy + 2) \div 153
        d   == doy - (153 * mp + 2) \div 5 + 1
        m   == IF mp < 10 THEN mp + 3 ELSE mp - 9
        y   == yoe + era * 400 + (IF m <= 2 THEN 1 ELSE 0)
    IN  [y |-> y, m |-> m, d |-> d]

\* datetime(y, m, d) plus tod ticks, in ticks
Ticks(y, m, d, tod) == DaysFromCivil(y, m, d) * TicksPerDay + tod

\* datetime.weekday(): Monday is 0 (1970-01-01 was a Thursday)
weekday(t) == ((t \div TicksPerDay) + 3) % 7

\* dt + timedelta(days = n)
timedelta_days(t, n) == t + n * TicksPerDay

---------------------------------------------------------------------------
(* Date strings *)

\* a string that is no date at all
TextStr == [f |-> "text", y |-> 0, m |-> 0, d |-> 0, tod |-> 0, sfx |-> ""]

\* the printed form "YYYY-MM-DDTHH:MM:SS" followed by sfx
IsoStr(y, m, d, tod, sfx) ==
    [f |-> "iso", y |-> y, m |-> m, d |-> d, tod |-> tod, sfx |-> sfx]

\* datetime.isoformat()
isoformat(dt) ==
    LET c == CivilFromDays(dt.t \div TicksPerDay)
    IN  IsoStr(c.y, c.m, c.d, dt.t % TicksPerDay,
               IF dt.aware THEN "+00:00" ELSE "")

\* str.replace('Z', '+00:00') on a date string
replace_Z(s) == IF s.sfx = "Z" THEN [s EXCEPT !.sfx = "+00:00"] ELSE s

\* datetime.fromisoformat(s) of Python 3.7 - 3.10: ok = FALSE is ValueError
fromisoformat(s) ==
    IF /\ s.f = "iso"
       /\ s.sfx \in {"", "+00:00"}
       /\ ValidDate(s.y, s.m, s.d)
       /\ s.tod \in 0..(TicksPerDay - 1)
    THEN [ok |-> TRUE,
          dt |-> [t |-> Ticks(s.y, s.m, s.d, s.tod), aware |-> s.sfx # ""]]
    ELSE [ok |-> FALSE, dt |-> [t |-> 0, aware |-> FALSE]]

---------------------------------------------------------------------------
(* Texts *)

\* A text is a sequence of tokens; "WS" is white space, any other token is
\* visible characters.

\* str.strip(): leading white space off
RECURSIVE lstrip(_)
lstrip(s) == IF s # <<>> /\ Head(s) = "WS" THEN lstrip(Tail(s)) ELSE s

\* str.strip(): trailing white space off
RECURSIVE rstrip(_)
rstrip(s) ==
    IF s # <<>> /\ s[Len(s)] = "WS" THEN rstrip(SubSeq(s, 1, Len(s) - 1)) ELSE s

\* str.strip()
strip(s) == rstrip(lstrip(s))

---------------------------------------------------------------------------
(* HTML as the scraper sees it *)

\* A text node.  date: the node holds digits of the shape M/D/YYYY (m, d, y);
\* words: it holds other visible characters as well; pad: it starts or ends
\* with white space.
TextNode(date, m, d, y, words, pad) ==
    [date |-> date, m |-> m, d |-> d, y |-> y, words |-> words, pad |-> pad]

\* text without any date
Words == TextNode(FALSE, 0, 0, 0, TRUE, FALSE)

\* a node that is exactly the date, e.g. "3/15/2025"
DateNode(m, d, y) == TextNode(TRUE, m, d, y, FALSE, FALSE)

\* A tagged element (tr or div of class meeting|agenda): its text nodes in
\* document order and the href of its first agenda|pdf anchor ("" if none).
Element(texts, href) == [texts |-> texts, href |-> href]

\* re.compile(r'\d{1,2}/\d{1,2}/\d{4}').search(node)
date_regex_search(node) ==
    node.date /\ node.m \in 0..99 /\ node.d \in 0..99 /\ node.y \in 0..9999

\* element.find(text=regex): index of the first matching text node, 0 if none
RECURSIVE find_text(_, _)
find_text(texts, i) ==
    IF i > Len(texts) THEN 0
    ELSE IF date_regex_search(texts[i]) THEN i
    ELSE find_text(texts, i + 1)

\* datetime.strptime(node.strip(), '%m/%d/%Y'): the whole stripped node must
\* be the date; ok = FALSE is ValueError
strptime_mdY(node) ==
    IF node.date /\ ~node.words /\ ValidDate(node.y, node.m, node.d)
    THEN [ok |-> TRUE,
          dt |-> [t |-> Ticks(node.y, node.m, node.d, 0), aware |-> FALSE]]
    ELSE [ok |-> FALSE, dt |-> [t |-> 0, aware |-> FALSE]]

---------------------------------------------------------------------------
(* Meeting records *)

\* value of a string key the record does not have
Absent == "<absent>"

\* A URL is the sequence of the strings it was joined from; <<>> is None.
NoUrl == <<>>

\* the title of a record that has no title key
NoTitle == <<Absent>>

\* the record _parse_granicus_meeting returns; raw_content is the element's
\* markup (<<>> when the key is absent)
GranicusRecord(name, dt, agenda_url, element) ==
    [agency |-> name, date |-> isoformat(dt), type |-> "Regular Meeting",
     agenda_url |-> agenda_url, raw_content |-> <<element>>, title |-> NoTitle,
     source |-> "granicus"]

\* the record _parse_legistar_meeting returns
LegistarRecord(name, dt, agenda_url, title) ==
    [agency |-> name, date |-> isoformat(dt), type |-> "Regular Meeting",
     agenda_url |-> agenda_url, raw_content |-> <<>>, title |-> title,
     source |-> "legistar"]

\* week_start <= meeting_date <= week_end
in_target_week(ws, t, we) == ws <= t /\ t <= we

\* _parse_granicus_meeting: <<record>> for a meeting, <<>> for None
_parse_granicus_meeting(element, config, ws, we) ==
    LET i == find_text(element.texts, 1)
    IN  IF i = 0 THEN <<>>
        ELSE LET p == strptime_mdY(element.texts[i])
             IN  IF ~p.ok THEN <<>>
                 ELSE IF ~in_target_week(ws, p.dt.t, we) THEN <<>>
                 ELSE <<GranicusRecord(config.name, p.dt,
                            IF element.href = "" THEN NoUrl ELSE <<element.href>>,
                            element)>>

\* _parse_legistar_meeting: the anchor's href and stripped text, dated now;
\* the dict is never empty, so `if meeting:` keeps every one
_parse_legistar_meeting(link, config, clock) ==
    <<LegistarRecord(config.name, [t |-> clock, aware |-> FALSE],
                     <<config.base_url, link.href>>, strip(link.text))>>

---------------------------------------------------------------------------
(* The scraper: kern_scraper.py *)

\* KernCountyScraper.sources, in the order the dict is iterated
sources ==
    << [key |-> "county_supervisors",
        base_url |-> "https://kernco.granicus.com",
        meetings_path |-> "/ViewPublished.php?view_id=2",
        name |-> "Kern County Board of Supervisors"],
       [key |-> "bakersfield_council",
        base_url |-> "https://bakersfield.legistar.com",
        meetings_path |-> "/Calendar.aspx",
        name |-> "Bakersfield City Council"],
       [key |-> "planning_commission",
        base_url |-> "https://kernco.granicus.com",
        meetings_path |-> "/ViewPublished.php?view_id=3",
        name |-> "Kern County Planning Commission"] >>

\* 'granicus' in config['base_url']
is_granicus(config) == config.base_url = "https://kernco.granicus.com"

\* 'legistar' in config['base_url']
is_legistar(config) == config.base_url = "https://bakersfield.legistar.com"

\* What session.get, raise_for_status and BeautifulSoup gave for one source:
\* ok = FALSE is an exception of any of them (transport error, HTTP status,
\* markup that cannot be read); rows are the page's tagged tr/div elements,
\* links its anchors, each [href, text].
Response(ok, rows, links) == [ok |-> ok, rows |-> rows, links |-> links]

FetchError == Response(FALSE, <<>>, <<>>)

\* the loop of _scrape_granicus over meeting_rows, from row i
RECURSIVE granicus_rows(_, _, _, _, _)
granicus_rows(rows, i, config, ws, we) ==
    IF i > Len(rows) THEN <<>>
    ELSE _parse_granicus_meeting(rows[i], config, ws, we)
         \o granicus_rows(rows, i + 1, config, ws, we)

\* re.compile(r'MeetingDetail', re.I).search(href)
href_matches(href) ==
    href \in {"/MeetingDetail.aspx?ID=123", "/meetingdetail.aspx?id=7"}

is_detail_link(link) == href_matches(link.href)

\* soup.find_all('a', href=re.compile(r'MeetingDetail', re.I))
find_meeting_links(anchors) == SelectSeq(anchors, is_detail_link)

\* the loop of _scrape_legistar over meeting_links, from link i
RECURSIVE legistar_links(_, _, _, _)
legistar_links(links, i, config, clock) ==
    IF i > Len(links) THEN <<>>
    ELSE _parse_legistar_meeting(links[i], config, clock)
         \o legistar_links(links, i + 1, config, clock)

\* _scrape_granicus: a failed fetch is caught and leaves meetings = []
_scrape_granicus(config, ws, we, resp) ==
    IF ~resp.ok THEN <<>>
    ELSE granicus_rows(resp.rows, 1, config, ws, we)

\* _scrape_legistar keeping only the links parsed inside the week window
_scrape_legistar_windowed(config, ws, we, resp, clock) ==
    IF ~resp.ok \/ ~(ws <= clock /\ clock <= we) THEN <<>>
    ELSE legistar_links(find_meeting_links(resp.links), 1, config, clock)

\* _scrape_legistar: no use of week_start and week_end; the links of a page
\* are parsed within one reading of the clock
_scrape_legistar(config, ws, we, resp, clock) ==
    IF ~resp.ok THEN <<>>
    ELSE legistar_links(find_meeting_links(resp.links), 1, config, clock)

\* _scrape_source: dispatch on the base URL
_scrape_source(config, ws, we, resp, clock) ==
    IF is_granicus(config) THEN _scrape_granicus(config, ws, we, resp)
    ELSE IF is_legistar(config) THEN _scrape_legistar(config, ws, we, resp, clock)
    ELSE <<>>

\* all_meetings.extend(meetings) of one iteration of scrape_weekly_meetings
extend_all_meetings(all, meetings) == all \o meetings

---------------------------------------------------------------------------
(* The AI processor: ai_processor.py *)

\* A text is a sequence of tokens: "WS" white space, "WORD" prose, and the JSON
\* tokens "LB" [, "RB" ], "COMMA", "NUM" a number, "THEME" an object literal
\* with the keys theme and description, "OBJ" an object literal with other
\* keys.  A literal sentence of the program is a text of one token.

\* the two literals returned when summarization fails
AgendaFallback == <<"Summary unavailable - please check the agenda directly.">>

MinutesFallback == <<"Summary unavailable.">>

\* An answer of chat.completions.create: kind "raise" is an exception of the
\* call, kind "ok" a response whose first choice holds content.
Reply(call, kind, content) == [call |-> call, kind |-> kind, content |-> content]

NoReply == Reply("none", "none", <<>>)

\* _is_upcoming at clock reading clock.  Comparing an aware datetime with the
\* naive datetime.now() raises TypeError, which the bare except turns to False.
_is_upcoming(meeting, clock) ==
    LET p == fromisoformat(replace_Z(meeting.date))
    IN  IF ~p.ok THEN FALSE
        ELSE IF p.dt.aware THEN FALSE
        ELSE p.dt.t > clock

\* _summarize_agenda answering a failed call with the other literal
_summarize_agenda_wrong(meeting, reply) ==
    IF reply.kind = "raise" THEN <<"Summary unavailable.">>
    ELSE strip(reply.content)

\* _summarize_agenda, given the endpoint's answer
_summarize_agenda(meeting, reply) ==
    IF reply.kind = "raise" THEN AgendaFallback ELSE strip(reply.content)

\* _summarize_minutes, given the endpoint's answer
_summarize_minutes(meeting, reply) ==
    IF reply.kind = "raise" THEN MinutesFallback ELSE strip(reply.content)

\* the entry _process_upcoming_meetings appends
upcoming_entry(meeting, summary) ==
    [agency |-> meeting.agency, date |-> meeting.date, type |-> meeting.type,
     summary |-> summary, agenda_url |-> meeting.agenda_url]

\* the entry _process_recent_meetings appends (no agenda_url key)
recent_entry(meeting, summary) ==
    [agency |-> meeting.agency, date |-> meeting.date, type |-> meeting.type,
     summary |-> summary]

\* A Python value as json.loads returns it: t is "list", "dict" or "num"; a
\* list has items, a dict has keys and, when it has them, theme and description.
PyList(items) ==
    [t |-> "list", items |-> items, keys |-> {}, theme |-> Absent,
     description |-> <<>>]

PyDict(keys, theme, description) ==
    [t |-> "dict", items |-> <<>>, keys |-> keys, theme |-> theme,
     description |-> description]

PyNum == [t |-> "num", items |-> <<>>, keys |-> {}, theme |-> Absent,
          description |-> <<>>]

\* the value of one scalar JSON token
token_value(tok) ==
    IF tok = "THEME" THEN PyDict({"theme", "description"}, "Water", <<"WORD">>)
    ELSE IF tok = "OBJ" THEN PyDict({"name"}, Absent, <<>>)
    ELSE PyNum

is_scalar(tok) == tok \in {"THEME", "OBJ", "NUM"}

\* the body of a JSON array, white space removed: value (COMMA value)*
RECURSIVE array_body_ok(_, _)
array_body_ok(body, i) ==
    IF i > Len(body) THEN FALSE
    ELSE /\ is_scalar(body[i])
         /\ \/ i = Len(body)
            \/ /\ i + 1 <= Len(body)
               /\ body[i + 1] = "COMMA"
               /\ array_body_ok(body, i + 2)

\* the values of a well-formed array body
array_items(body) ==
    LET vals == SelectSeq(body, is_scalar)
    IN  [j \in 1..Len(vals) |-> token_value(vals[j])]

not_ws(tok) == tok # "WS"

\* json.loads(content): ok = FALSE is JSONDecodeError
json_loads(content) ==
    LET n == Len(content)
        c == SelectSeq(content, not_ws)
    IN  IF Len(c) = 1 /\ is_scalar(c[1])
        THEN [ok |-> TRUE, val |-> token_value(c[1])]
        ELSE IF Len(c) >= 2 /\ c[1] = "LB" /\ c[Len(c)] = "RB"
        THEN LET body == SubSeq(c, 2, Len(c) - 1)
             IN  IF body = <<>> THEN [ok |-> TRUE, val |-> PyList(<<>>)]
                 ELSE IF array_body_ok(body, 1)
                 THEN [ok |-> TRUE, val |-> PyList(array_items(body))]
                 ELSE [ok |-> FALSE, val |-> PyNum]
        ELSE [ok |-> FALSE, val |-> PyNum]

\* _find_common_themes dropping the text that does not parse
_find_common_themes_drop(meetings, reply) ==
    IF reply.kind = "raise" THEN PyList(<<>>)
    ELSE LET parsed == json_loads(strip(reply.content))
         IN  IF parsed.ok THEN parsed.val ELSE PyList(<<>>)

\* _find_common_themes, given the endpoint's answer
_find_common_themes(meetings, reply) ==
    IF reply.kind = "raise" THEN PyList(<<>>)
    ELSE LET content == strip(reply.content)
             parsed  == json_loads(content)
         IN  IF parsed.ok THEN parsed.val
             ELSE PyList(<<PyDict({"theme", "description"},
                                  "Multi-Agency Coordination", content)>>)

\* the dict process_meetings returns
bundle(pu, pr, th, meetings) ==
    [upcoming_meetings |-> pu, recent_minutes |-> pr, themes |-> th,
     total_meetings |-> Len(meetings)]

\* processed_data before process_meetings has returned
NoBundle ==
    [upcoming_meetings |-> <<>>, recent_minutes |-> <<>>,
     themes |-> PyList(<<>>), total_meetings |-> -1]

---------------------------------------------------------------------------
(* The file emitter: notebooklm_generator.py *)

\* datetime.fromisoformat of the interpreter running the emitter: Python 3.11
\* and later read a trailing Z, earlier versions raise ValueError on it
fromisoformat_py(s, py311) ==
    IF py311 THEN fromisoformat(replace_Z(s)) ELSE fromisoformat(s)

\* every date of the list is read by datetime.fromisoformat(meeting['date'])
dates_render(entries, py311) ==
    \A i \in 1..Len(entries) : fromisoformat_py(entries[i].date, py311).ok

\* _generate_meeting_summaries reaches its write
summaries_render(data, py311) ==
    /\ dates_render(data.upcoming_meetings, py311)
    /\ dates_render(data.recent_minutes, py311)

\* _generate_themes_connections reaches its write: enumerate(themes) must
\* iterate and every element must answer .get (a dict)
themes_render(data) ==
    /\ data.themes.t = "list"
    /\ \A i \in 1..Len(data.themes.items) : data.themes.items[i].t = "dict"

---------------------------------------------------------------------------
(* The run script: main.py *)

\* week_start = today - timedelta(days=today.weekday())
main_week_start(today) == timedelta_days(today, 0 - weekday(today))

\* week_end = week_start + timedelta(days=6)
main_week_end(ws) == timedelta_days(ws, 6)

\* where process_meetings starts: the comprehensions do nothing on []
process_entry(meetings) == IF meetings = <<>> THEN "themes" ELSE "classify_up"

\* main_after_scrape without the early return
main_after_scrape_noreturn(meetings) == process_entry(meetings)

\* main after Step 1: `if not meetings_data: return`
main_after_scrape(meetings) ==
    IF meetings = <<>> THEN "done" ELSE process_entry(meetings)

\* where process_meetings goes once both comprehensions are done
after_classify(up, rec) ==
    IF up # <<>> THEN "proc_up" ELSE IF rec # <<>> THEN "proc_rec" ELSE "themes"

\* a request that returns to its caller before it is answered
blocked_nowait(site) == site

\* session.get and chat.completions.create block: the caller stays inside the
\* call until the answer (or the exception) is there
blocked(site) ==
    CASE site = "scrape"   -> "scrape_wait"
      [] site = "proc_up"  -> "proc_up_wait"
      [] site = "proc_rec" -> "proc_rec_wait"
      [] site = "themes"   -> "themes_wait"

\* 1 when the call raised, else 0
raised(reply) == IF reply.kind = "raise" THEN 1 ELSE 0

\* scrape_iteration with a failed fetch ending the loop instead of going on
scrape_iteration_abort(all, i, ws, we, resp, clock) ==
    IF resp.ok
    THEN [all_meetings |->
              extend_all_meetings(all,
                  _scrape_source(sources[i], ws, we, resp, clock)),
          next |-> i + 1]
    ELSE [all_meetings |-> all, next |-> Len(sources) + 1]

\* one iteration of the loop of scrape_weekly_meetings over source i: the
\* source's records are appended and the loop goes on to the next source,
\* whether or not the fetch failed.  _scrape_granicus and _scrape_legistar
\* catch every exception themselves, so the handler of lines 52-54 is never
\* entered.
scrape_iteration(all, i, ws, we, resp, clock) ==
    [all_meetings |->
         extend_all_meetings(all, _scrape_source(sources[i], ws, we, resp, clock)),
     next |-> i + 1]

---------------------------------------------------------------------------
(* The inputs the model draws from *)

\* run starts: Monday 2025-03-10 00:00, and a later tick of Wednesday
\* 2025-03-12 and of Sunday 2025-03-16
StartTimes ==
    {Ticks(2025, 3, 10, 0), Ticks(2025, 3, 12, 1), Ticks(2025, 3, 14, 1),
     Ticks(2025, 3, 16, 1)}

RowMonday   == Element(<<DateNode(3, 10, 2025)>>, "agenda.pdf")
RowSaturday == Element(<<Words, DateNode(3, 15, 2025)>>, "")
RowSunday   == Element(<<DateNode(3, 16, 2025)>>, "")
RowNextWeek == Element(<<DateNode(3, 17, 2025)>>, "")
RowEmbedded == Element(<<TextNode(TRUE, 3, 15, 2025, TRUE, FALSE)>>, "")
RowPadded   == Element(<<TextNode(TRUE, 3, 15, 2025, FALSE, TRUE)>>, "")
RowBadFirst == Element(<<DateNode(13, 45, 2025), DateNode(3, 15, 2025)>>, "")
RowNoDate   == Element(<<Words>>, "")

LinkDetail ==
    [href |-> "/MeetingDetail.aspx?ID=123",
     text |-> <<"City Council Regular Meeting">>]

LinkLower ==
    [href |-> "/meetingdetail.aspx?id=7",
     text |-> <<"WS", "Planning Session", "WS">>]

LinkOther == [href |-> "/Calendar.aspx", text |-> <<"Calendar">>]

\* what a Granicus site may answer
GranicusResponses ==
    {FetchError,
     Response(TRUE, <<RowNoDate>>, <<>>),
     Response(TRUE, <<RowMonday>>, <<>>),
     Response(TRUE, <<RowSaturday, RowNextWeek>>, <<>>)}

\* what the Legistar site may answer
LegistarResponses ==
    {FetchError,
     Response(TRUE, <<>>, <<>>),
     Response(TRUE, <<>>, <<LinkOther, LinkDetail>>)}

Responses(config) ==
    IF is_granicus(config) THEN GranicusResponses ELSE LegistarResponses

\* what the completion endpoint may answer to a summarization prompt
SummaryReplies(call) ==
    {Reply(call, "raise", <<>>), Reply(call, "ok", <<"WS", "WORD">>)}

\* what it may answer to the theme prompt
ThemeReplies ==
    {Reply("themes", "raise", <<>>)} \cup
    {Reply("themes", "ok", c) : c \in
        {<<"LB", "THEME", "RB">>,
         <<"LB", "RB">>,
         <<"WORD">>,
         <<"WS", "WORD", "WS">>,
         <<"THEME">>,
         <<"NUM">>,
         <<"LB", "NUM", "RB">>,
         <<"LB", "THEME", "COMMA">>}}

---------------------------------------------------------------------------
(* A run of main *)

Init ==
    /\ pc = "start"
    /\ now \in StartTimes
    /\ elapsed = 0
    /\ week_start = 0
    /\ week_end = 0
    /\ src_i = 1
    /\ fetched = <<>>
    /\ all_meetings = <<>>
    /\ meetings_data = <<>>
    /\ k = 1
    /\ upcoming = <<>>
    /\ recent = <<>>
    /\ processed_upcoming = <<>>
    /\ processed_recent = <<>>
    /\ themes = PyList(<<>>)
    /\ processed_data = NoBundle
    /\ last_reply = NoReply
    /\ ai_calls = 0
    /\ files = <<>>
    /\ in_flight = 0
    /\ ai_failures = 0

\* positions after which the model still reads the clock
ClockRead ==
    {"start", "scrape", "classify_up", "classify_rec", "legistar_call"}

\* the wall clock advances while the run is under way
Tick ==
    /\ pc \in ClockRead
    /\ elapsed < MaxElapsed
    /\ now' = now + 1
    /\ elapsed' = elapsed + 1
    /\ UNCHANGED <<pc, week_start, week_end, src_i, fetched, all_meetings,
                   meetings_data, k, upcoming, recent, processed_upcoming,
                   processed_recent, themes, processed_data, last_reply,
                   ai_calls, files, in_flight, ai_failures>>

\* main: the week window of this run
MainStart ==
    /\ pc = "start"
    /\ week_start' = main_week_start(now)
    /\ week_end' = main_week_end(main_week_start(now))
    /\ pc' = "scrape"
    /\ src_i' = 1
    /\ UNCHANGED <<now, elapsed, fetched, all_meetings, meetings_data, k,
                   upcoming, recent, processed_upcoming, processed_recent,
                   themes, processed_data, last_reply, ai_calls, files,
                   in_flight, ai_failures>>

\* _scrape_granicus / _scrape_legistar: self.session.get is sent
HttpGet ==
    /\ pc = "scrape"
    /\ src_i <= Len(sources)
    /\ in_flight' = in_flight + 1
    /\ pc' = blocked(pc)
    /\ UNCHANGED <<now, elapsed, week_start, week_end, src_i, fetched,
                   all_meetings, meetings_data, k, upcoming, recent,
                   processed_upcoming, processed_recent, themes,
                   processed_data, last_reply, ai_calls, files, ai_failures>>

\* scrape_weekly_meetings: one source, from the answer of the site on
ScrapeSource ==
    /\ pc = "scrape_wait"
    /\ src_i <= Len(sources)
    /\ in_flight' = in_flight - 1
    /\ pc' = "scrape"
    /\ \E resp \in Responses(sources[src_i]) :
          LET r == scrape_iteration(all_meetings, src_i, week_start, week_end,
                                    resp, now)
          IN  /\ all_meetings' = r.all_meetings
              /\ src_i' = r.next
              /\ fetched' = Append(fetched, resp)
    /\ UNCHANGED <<now, elapsed, week_start, week_end, meetings_data, k,
                   upcoming, recent, processed_upcoming, processed_recent,
                   themes, processed_data, last_reply, ai_calls, files,
                   ai_failures>>

\* scrape_weekly_meetings returns; main returns at once on an empty list
ScrapeReturn ==
    /\ pc = "scrape"
    /\ src_i > Len(sources)
    /\ meetings_data' = all_meetings
    /\ pc' = main_after_scrape(all_meetings)
    /\ k' = 1
    /\ UNCHANGED <<now, elapsed, week_start, week_end, src_i, fetched,
                   all_meetings, upcoming, recent, processed_upcoming,
                   processed_recent, themes, processed_data, last_reply,
                   ai_calls, files, in_flight, ai_failures>>

---------------------------------------------------------------------------
(* process_meetings *)

\* upcoming = [m for m in meetings_data if self._is_upcoming(m)]: meeting k;
\* every call of _is_upcoming reads the clock anew
ClassifyUpcoming ==
    /\ pc = "classify_up"
    /\ k <= Len(meetings_data)
    /\ upcoming' = IF _is_upcoming(meetings_data[k], now)
                   THEN Append(upcoming, meetings_data[k])
                   ELSE upcoming
    /\ IF k = Len(meetings_data)
       THEN pc' = "classify_rec" /\ k' = 1
       ELSE pc' = pc /\ k' = k + 1
    /\ UNCHANGED <<now, elapsed, week_start, week_end, src_i, fetched,
                   all_meetings, meetings_data, recent, processed_upcoming,
                   processed_recent, themes, processed_data, last_reply,
                   ai_calls, files, in_flight, ai_failures>>

\* recent = [m for m in meetings_data if not self._is_upcoming(m)]: meeting k
ClassifyRecent ==
    /\ pc = "classify_rec"
    /\ k <= Len(meetings_data)
    /\ LET rec == IF ~_is_upcoming(meetings_data[k], now)
                  THEN Append(recent, meetings_data[k])
                  ELSE recent
       IN  /\ recent' = rec
           /\ IF k = Len(meetings_data)
              THEN pc' = after_classify(upcoming, rec) /\ k' = 1
              ELSE pc' = pc /\ k' = k + 1
    /\ UNCHANGED <<now, elapsed, week_start, week_end, src_i, fetched,
                   all_meetings, meetings_data, upcoming, processed_upcoming,
                   processed_recent, themes, processed_data, last_reply,
                   ai_calls, files, in_flight, ai_failures>>

\* client.chat.completions.create is sent: by _summarize_agenda, by
\* _summarize_minutes or by _find_common_themes
ChatCompletionCreate ==
    /\ pc \in {"proc_up", "proc_rec", "themes"}
    /\ in_flight' = in_flight + 1
    /\ pc' = blocked(pc)
    /\ UNCHANGED <<now, elapsed, week_start, week_end, src_i, fetched,
                   all_meetings, meetings_data, k, upcoming, recent,
                   processed_upcoming, processed_recent, themes,
                   processed_data, last_reply, ai_calls, files, ai_failures>>

\* _process_upcoming_meetings: meeting k of upcoming, one remote call.  The
\* records hold agency and date and _summarize_agenda catches what the call
\* raises, so the handler of lines 59-60 is never entered.
SummarizeUpcoming ==
    /\ pc = "proc_up_wait"
    /\ k <= Len(upcoming)
    /\ \E reply \in SummaryReplies("agenda") :
          /\ processed_upcoming' =
                 Append(processed_upcoming,
                        upcoming_entry(upcoming[k],
                                       _summarize_agenda(upcoming[k], reply)))
          /\ last_reply' = reply
          /\ ai_failures' = ai_failures + raised(reply)
    /\ ai_calls' = ai_calls + 1
    /\ in_flight' = in_flight - 1
    /\ IF k = Len(upcoming)
       THEN pc' = after_classify(<<>>, recent) /\ k' = 1
       ELSE pc' = "proc_up" /\ k' = k + 1
    /\ UNCHANGED <<now, elapsed, week_start, week_end, src_i, fetched,
                   all_meetings, meetings_data, upcoming, recent,
                   processed_recent, themes, processed_data, files>>

\* _process_recent_meetings: meeting k of recent, one remote call (the
\* handler of lines 77-78 is never entered either)
SummarizeRecent ==
    /\ pc = "proc_rec_wait"
    /\ k <= Len(recent)
    /\ \E reply \in SummaryReplies("minutes") :
          /\ processed_recent' =
                 Append(processed_recent,
                        recent_entry(recent[k],
                                     _summarize_minutes(recent[k], reply)))
          /\ last_reply' = reply
          /\ ai_failures' = ai_failures + raised(reply)
    /\ ai_calls' = ai_calls + 1
    /\ in_flight' = in_flight - 1
    /\ IF k = Len(recent)
       THEN pc' = "themes" /\ k' = 1
       ELSE pc' = "proc_rec" /\ k' = k + 1
    /\ UNCHANGED <<now, elapsed, week_start, week_end, src_i, fetched,
                   all_meetings, meetings_data, upcoming, recent,
                   processed_upcoming, themes, processed_data, files>>

\* _find_common_themes, one remote call, and the return of process_meetings
FindCommonThemes ==
    /\ pc = "themes_wait"
    /\ \E reply \in ThemeReplies :
          LET th == _find_common_themes(meetings_data, reply)
          IN  /\ themes' = th
              /\ processed_data' =
                     bundle(processed_upcoming, processed_recent, th,
                            meetings_data)
              /\ last_reply' = reply
              /\ ai_failures' = ai_failures + raised(reply)
    /\ ai_calls' = ai_calls + 1
    /\ in_flight' = in_flight - 1
    /\ pc' = "pm_return"
    /\ UNCHANGED <<now, elapsed, week_start, week_end, src_i, fetched,
                   all_meetings, meetings_data, k, upcoming, recent,
                   processed_upcoming, processed_recent, files>>

---------------------------------------------------------------------------
(* generate_files and the rest of main *)

\* _generate_meeting_summaries: an exception leaves main through its handler,
\* which logs and raises again
GenerateSummaries ==
    /\ pc = "pm_return"
    /\ \E py311 \in BOOLEAN :
          IF summaries_render(processed_data, py311)
          THEN /\ files' = Append(files, "meeting-summaries.txt")
               /\ pc' = "gen_themes"
          ELSE /\ files' = files
               /\ pc' = "crashed"
    /\ UNCHANGED <<now, elapsed, week_start, week_end, src_i, fetched,
                   all_meetings, meetings_data, k, upcoming, recent,
                   processed_upcoming, processed_recent, themes,
                   processed_data, last_reply, ai_calls,
                   in_flight, ai_failures>>

\* _generate_themes_connections
GenerateThemes ==
    /\ pc = "gen_themes"
    /\ IF themes_render(processed_data)
       THEN /\ files' = Append(files, "themes-connections.txt")
            /\ pc' = "gen_guidelines"
       ELSE /\ files' = files
            /\ pc' = "crashed"
    /\ UNCHANGED <<now, elapsed, week_start, week_end, src_i, fetched,
                   all_meetings, meetings_data, k, upcoming, recent,
                   processed_upcoming, processed_recent, themes,
                   processed_data, last_reply, ai_calls,
                   in_flight, ai_failures>>

\* _generate_podcast_guidelines, and generate_files returns
GenerateGuidelines ==
    /\ pc = "gen_guidelines"
    /\ files' = Append(files, "podcast-guidelines.txt")
    /\ pc' = "gen_return"
    /\ UNCHANGED <<now, elapsed, week_start, week_end, src_i, fetched,
                   all_meetings, meetings_data, k, upcoming, recent,
                   processed_upcoming, processed_recent, themes,
                   processed_data, last_reply, ai_calls,
                   in_flight, ai_failures>>

\* main, Step 4: json.dump to latest-meetings.json
SaveRawData ==
    /\ pc = "gen_return"
    /\ files' = Append(files, "latest-meetings.json")
    /\ pc' = "update_web"
    /\ UNCHANGED <<now, elapsed, week_start, week_end, src_i, fetched,
                   all_meetings, meetings_data, k, upcoming, recent,
                   processed_upcoming, processed_recent, themes,
                   processed_data, last_reply, ai_calls,
                   in_flight, ai_failures>>

\* main, Step 5: update_website_data writes latest-data.js
UpdateWebsite ==
    /\ pc = "update_web"
    /\ files' = Append(files, "latest-data.js")
    /\ pc' = "done"
    /\ UNCHANGED <<now, elapsed, week_start, week_end, src_i, fetched,
                   all_meetings, meetings_data, k, upcoming, recent,
                   processed_upcoming, processed_recent, themes,
                   processed_data, last_reply, ai_calls,
                   in_flight, ai_failures>>

Next ==
    \/ Tick
    \/ MainStart
    \/ HttpGet
    \/ ScrapeSource
    \/ ScrapeReturn
    \/ ClassifyUpcoming
    \/ ClassifyRecent
    \/ ChatCompletionCreate
    \/ SummarizeUpcoming
    \/ SummarizeRecent
    \/ FindCommonThemes
    \/ GenerateSummaries
    \/ GenerateThemes
    \/ GenerateGuidelines
    \/ SaveRawData
    \/ UpdateWebsite

Spec == Init /\ [][Next]_vars

---------------------------------------------------------------------------
(* process_meetings and generate_files called on any list of records *)

\* the clock when process_meetings is called: Wednesday 2025-03-12, tick 1
CallTime == Ticks(2025, 3, 12, 1)

\* a meeting record with the given date string
InputMeeting(date) ==
    [agency |-> "Agency", date |-> date, type |-> "Regular Meeting",
     agenda_url |-> NoUrl, raw_content |-> <<>>, title |-> NoTitle,
     source |-> "granicus"]

\* date strings: a day before the call, the instant of the call, one tick
\* after it, a week after it with a trailing Z, and text that is no date
InputDates ==
    {isoformat([t |-> CallTime - TicksPerDay, aware |-> FALSE]),
     isoformat([t |-> CallTime, aware |-> FALSE]),
     isoformat([t |-> CallTime + 1, aware |-> FALSE]),
     IsoStr(2025, 3, 19, 0, "Z"),
     TextStr}

InputMeetings == {InputMeeting(d) : d \in InputDates}

\* the lists of at most MaxMeetings records
InputLists ==
    UNION {[1..n -> InputMeetings] : n \in 0..MaxMeetings}

InitPM ==
    /\ meetings_data \in InputLists
    /\ pc = process_entry(meetings_data)
    /\ now = CallTime
    /\ elapsed = 0
    /\ week_start = 0
    /\ week_end = 0
    /\ src_i = 1
    /\ fetched = <<>>
    /\ all_meetings = <<>>
    /\ k = 1
    /\ upcoming = <<>>
    /\ recent = <<>>
    /\ processed_upcoming = <<>>
    /\ processed_recent = <<>>
    /\ themes = PyList(<<>>)
    /\ processed_data = NoBundle
    /\ last_reply = NoReply
    /\ ai_calls = 0
    /\ files = <<>>
    /\ in_flight = 0
    /\ ai_failures = 0

NextPM ==
    \/ Tick
    \/ ClassifyUpcoming
    \/ ClassifyRecent
    \/ ChatCompletionCreate
    \/ SummarizeUpcoming
    \/ SummarizeRecent
    \/ FindCommonThemes
    \/ GenerateSummaries
    \/ GenerateThemes
    \/ GenerateGuidelines

SpecPM == InitPM /\ [][NextPM]_vars

---------------------------------------------------------------------------
(* _parse_granicus_meeting called on any element and window *)

ParseRows ==
    {RowMonday, RowSaturday, RowSunday, RowNextWeek, RowEmbedded, RowPadded,
     RowBadFirst, RowNoDate}

ParseWeekStarts ==
    {Ticks(2025, 3, 10, 0), Ticks(2025, 3, 10, 1), Ticks(2025, 3, 15, 0),
     Ticks(2025, 3, 16, 0)}

ParseWeekEnds ==
    {Ticks(2025, 3, 14, 1), Ticks(2025, 3, 15, 0), Ticks(2025, 3, 16, 0),
     Ticks(2025, 3, 16, 1)}

InitParse ==
    /\ pc = "parse_call"
    /\ week_start \in ParseWeekStarts
    /\ week_end \in ParseWeekEnds
    /\ \E row \in ParseRows : fetched = <<Response(TRUE, <<row>>, <<>>)>>
    /\ now = CallTime
    /\ elapsed = 0
    /\ src_i = 1
    /\ all_meetings = <<>>
    /\ meetings_data = <<>>
    /\ k = 1
    /\ upcoming = <<>>
    /\ recent = <<>>
    /\ processed_upcoming = <<>>
    /\ processed_recent = <<>>
    /\ themes = PyList(<<>>)
    /\ processed_data = NoBundle
    /\ last_reply = NoReply
    /\ ai_calls = 0
    /\ files = <<>>
    /\ in_flight = 0
    /\ ai_failures = 0

\* the call _parse_granicus_meeting(row, config, week_start, week_end)
ParseGranicus ==
    /\ pc = "parse_call"
    /\ all_meetings' = _parse_granicus_meeting(fetched[1].rows[1], sources[1],
                                               week_start, week_end)
    /\ pc' = "parse_done"
    /\ UNCHANGED <<now, elapsed, week_start, week_end, src_i, fetched,
                   meetings_data, k, upcoming, recent, processed_upcoming,
                   processed_recent, themes, processed_data, last_reply,
                   ai_calls, files, in_flight, ai_failures>>

NextParse == ParseGranicus

SpecParse == InitParse /\ [][NextParse]_vars

---------------------------------------------------------------------------
(* _scrape_legistar on its own: any page of anchors, any week window *)

\* the pages of at most MaxLinks anchors
LegistarAnchors == {LinkDetail, LinkLower, LinkOther}

LegistarPages ==
    UNION {[1..n -> LegistarAnchors] : n \in 0..MaxLinks}

InitLegistar ==
    /\ pc = "legistar_call"
    /\ week_start \in ParseWeekStarts
    /\ week_end \in ParseWeekEnds
    /\ \E page \in LegistarPages : fetched = <<Response(TRUE, <<>>, page)>>
    /\ now = CallTime
    /\ elapsed = 0
    /\ src_i = 2
    /\ all_meetings = <<>>
    /\ meetings_data = <<>>
    /\ k = 1
    /\ upcoming = <<>>
    /\ recent = <<>>
    /\ processed_upcoming = <<>>
    /\ processed_recent = <<>>
    /\ themes = PyList(<<>>)
    /\ processed_data = NoBundle
    /\ last_reply = NoReply
    /\ ai_calls = 0
    /\ files = <<>>
    /\ in_flight = 0
    /\ ai_failures = 0

\* the call _scrape_legistar(config, week_start, week_end) once the page of
\* the Bakersfield calendar has been fetched
ScrapeLegistar ==
    /\ pc = "legistar_call"
    /\ all_meetings' = _scrape_legistar(sources[src_i], week_start, week_end,
                                        fetched[1], now)
    /\ pc' = "legistar_done"
    /\ UNCHANGED <<now, elapsed, week_start, week_end, src_i, fetched,
                   meetings_data, k, upcoming, recent, processed_upcoming,
                   processed_recent, themes, processed_data, last_reply,
                   ai_calls, files, in_flight, ai_failures>>

NextLegistar ==
    \/ Tick
    \/ ScrapeLegistar

SpecLegistar == InitLegistar /\ [][NextLegistar]_vars

---------------------------------------------------------------------------
(* Properties *)

\* number of entries of seq whose date is d
RECURSIVE CountDate(_, _)
CountDate(seq, d) ==
    IF seq = <<>> THEN 0
    ELSE (IF Head(seq).date = d THEN 1 ELSE 0) + CountDate(Tail(seq), d)

\* C1: when process_meetings returns, upcoming_meetings and recent_minutes
\* partition the input: every input meeting has exactly one entry, in exactly
\* one of the two lists, and the two lengths add up to total_meetings, the
\* length of the input.
C1_Partition ==
    pc \in {"pm_return", "gen_themes", "gen_guidelines", "gen_return",
            "update_web", "done", "crashed"}
    => /\ processed_data.total_meetings = Len(meetings_data)
       /\ Len(processed_data.upcoming_meetings)
              + Len(processed_data.recent_minutes)
          = processed_data.total_meetings
       /\ \A d \in {meetings_data[i].date : i \in 1..Len(meetings_data)} :
             CountDate(processed_data.upcoming_meetings, d)
                 + CountDate(processed_data.recent_minutes, d)
             = CountDate(meetings_data, d)

\* the date string parses as ISO-8601, a trailing Z accepted, to an instant
\* strictly after clock
ParsesAfter(date, clock) ==
    /\ date.f = "iso"
    /\ date.sfx \in {"", "Z", "+00:00"}
    /\ ValidDate(date.y, date.m, date.d)
    /\ date.tod \in 0..(TicksPerDay - 1)
    /\ Ticks(date.y, date.m, date.d, date.tod) > clock

\* C2: the call of _is_upcoming on meeting k puts it in upcoming if and only
\* if its date parses as ISO-8601 (trailing Z accepted) and is strictly after
\* the clock at the call; equal, past and unparsable dates are recent.
C2_UpcomingIffParsesAfterNow ==
    [][(pc = "classify_up" /\ now' = now)
       => ((upcoming' = Append(upcoming, meetings_data[k]))
           <=> ParsesAfter(meetings_data[k].date, now))]_vars

\* a record with the date of a Legistar record, which is the clock reading
\* of its parse, blanked
Masked(rec) ==
    IF rec.source = "legistar" THEN [rec EXCEPT !.date = TextStr] ELSE rec

MaskedSeq(seq) == [i \in 1..Len(seq) |-> Masked(seq[i])]

\* positions of main up to the return of scrape_weekly_meetings
Scraping == {"start", "scrape", "scrape_wait"}

\* the records parsed from what source i answered; none if its fetch failed
SourceRecords(i) ==
    IF ~fetched[i].ok THEN <<>>
    ELSE IF is_granicus(sources[i])
    THEN granicus_rows(fetched[i].rows, 1, sources[i], week_start, week_end)
    ELSE legistar_links(find_meeting_links(fetched[i].links), 1, sources[i], 0)

\* the records of sources 1..n, concatenated in configuration order
RECURSIVE RecordsUpTo(_)
RecordsUpTo(n) ==
    IF n = 0 THEN <<>> ELSE RecordsUpTo(n - 1) \o SourceRecords(n)

\* number of records of the sources 1..n whose fetch succeeded
RECURSIVE CountUpTo(_)
CountUpTo(n) ==
    IF n = 0 THEN 0
    ELSE CountUpTo(n - 1)
         + (IF fetched[n].ok THEN Len(SourceRecords(n)) ELSE 0)

\* C3: a source whose fetch fails contributes no record and does not end the
\* loop: every source is attempted, and the list is the concatenation of the
\* records of the sources that succeeded, its length their sum.
C3_FailedSourceIsolated ==
    /\ Len(fetched) = src_i - 1
    /\ ~(pc \in Scraping) => Len(fetched) = Len(sources)
    /\ MaskedSeq(all_meetings) = MaskedSeq(RecordsUpTo(Len(fetched)))
    /\ Len(all_meetings) = CountUpTo(Len(fetched))

\* C3 witness: the first source failed and the later ones still gave records
C3_Witness ==
    /\ ~(pc \in Scraping)
    /\ ~fetched[1].ok
    /\ fetched[2].ok
    /\ fetched[3].ok
    /\ Len(all_meetings) >= 2

\* the element holds a date that parses as month/day/year within [ws, we]
HasDateInWindow(element, ws, we) ==
    \E i \in 1..Len(element.texts) :
        LET n == element.texts[i]
        IN  /\ n.date
            /\ ValidDate(n.y, n.m, n.d)
            /\ ws <= Ticks(n.y, n.m, n.d, 0)
            /\ Ticks(n.y, n.m, n.d, 0) <= we

\* C4: the Granicus parser gives a record if and only if the element holds a
\* date that parses as month/day/year with week_start <= date <= week_end
\* (both ends included); the record is dated that day at 00:00:00; any other
\* element gives no record and no error.
C4_RecordIffDateInWindow ==
    pc = "parse_done"
    => LET element == fetched[1].rows[1]
       IN  /\ (all_meetings # <<>>)
                  <=> HasDateInWindow(element, week_start, week_end)
           /\ all_meetings # <<>>
                  => /\ Len(all_meetings) = 1
                     /\ \E i \in 1..Len(element.texts) :
                           LET n == element.texts[i]
                           IN  all_meetings[1].date
                                   = IsoStr(n.y, n.m, n.d, 0, "")

\* Monday 00:00 of the week in which the run started
WeekMonday ==
    LET start == now - elapsed
    IN  ((start \div TicksPerDay) - weekday(start)) * TicksPerDay

\* C5: the window main hands to the scraper runs from Monday 00:00 to the
\* end of Sunday of the current week at whatever time the run starts, so a
\* Granicus date (00:00) of any day Monday..Sunday of the week passes the filter.
C5_WindowCoversWeek ==
    pc # "start"
    => /\ week_start = WeekMonday
       /\ \A day \in 0..6 :
             in_target_week(week_start, WeekMonday + day * TicksPerDay,
                            week_end)

\* C6: with no meeting scraped the run ends before AI processing and file
\* generation (no remote call, no file); with at least one, the remote calls
\* are made (the last of them the theme call) and generate_files is run.
C6_ZeroMeetingsShortCircuit ==
    /\ meetings_data = <<>> => ai_calls = 0 /\ files = <<>>
    /\ (~(pc \in Scraping) /\ meetings_data = <<>>) => pc = "done"
    /\ (pc \in {"done", "crashed"} /\ meetings_data # <<>>)
           => /\ ai_calls >= 2
              /\ last_reply.call = "themes"
              /\ processed_data.total_meetings = Len(meetings_data)
              /\ files # <<>>
              /\ files[1] = "meeting-summaries.txt"

\* C6 witness: every source was scraped, none gave a meeting, the run is over
C6_Witness ==
    /\ pc = "done"
    /\ Len(fetched) = Len(sources)
    /\ meetings_data = <<>>
    /\ all_meetings = <<>>

\* positions at which process_meetings has returned
Returned ==
    {"pm_return", "gen_themes", "gen_guidelines", "gen_return", "update_web",
     "done", "crashed"}

\* C7: when the remote call raises, _summarize_agenda gives exactly "Summary
\* unavailable - please check the agenda directly." and _summarize_minutes
\* exactly "Summary unavailable."; nothing propagates: the meeting is in its
\* processed list with that summary, and every meeting classified has its entry.
C7_SummaryFallback ==
    /\ (last_reply.call = "agenda" /\ last_reply.kind = "raise")
           => LET n == Len(processed_upcoming)
              IN  /\ n >= 1
                  /\ n <= Len(upcoming)
                  /\ processed_upcoming[n].summary =
                         <<"Summary unavailable - please check the agenda directly.">>
                  /\ processed_upcoming[n].agency = upcoming[n].agency
                  /\ processed_upcoming[n].date = upcoming[n].date
    /\ (last_reply.call = "minutes" /\ last_reply.kind = "raise")
           => LET n == Len(processed_recent)
              IN  /\ n >= 1
                  /\ n <= Len(recent)
                  /\ processed_recent[n].summary = <<"Summary unavailable.">>
                  /\ processed_recent[n].agency = recent[n].agency
                  /\ processed_recent[n].date = recent[n].date
    /\ pc \in {"proc_up", "proc_up_wait"} => Len(processed_upcoming) = k - 1
    /\ pc \in {"proc_rec", "proc_rec_wait"} => Len(processed_recent) = k - 1
    /\ pc \in {"proc_rec", "proc_rec_wait", "themes", "themes_wait"}
              \cup Returned
           => Len(processed_upcoming) = Len(upcoming)
    /\ pc \in {"themes", "themes_wait"} \cup Returned
           => Len(processed_recent) = Len(recent)

\* C7 witness: process_meetings has returned a bundle holding an agenda
\* fallback and a minutes fallback
C7_Witness ==
    /\ pc = "pm_return"
    /\ \E i \in 1..Len(processed_data.upcoming_meetings) :
          processed_data.upcoming_meetings[i].summary = AgendaFallback
    /\ \E i \in 1..Len(processed_data.recent_minutes) :
          processed_data.recent_minutes[i].summary = MinutesFallback

\* d is raw without its leading and trailing white space
IsTrimOf(d, raw) ==
    \E i \in 0..Len(raw) :
        /\ i + Len(d) <= Len(raw)
        /\ SubSeq(raw, i + 1, i + Len(d)) = d
        /\ \A p \in 1..i : raw[p] = "WS"
        /\ \A p \in (i + Len(d) + 1)..Len(raw) : raw[p] = "WS"
        /\ d # <<>> => d[1] # "WS" /\ d[Len(d)] # "WS"

\* the theme call succeeded and its response body is not valid JSON
ThemeReplyNotJson ==
    /\ pc \in Returned
    /\ last_reply.call = "themes"
    /\ last_reply.kind = "ok"
    /\ ~json_loads(last_reply.content).ok

\* themes is a list of exactly one theme dict
OneTheme ==
    /\ themes.t = "list"
    /\ Len(themes.items) = 1
    /\ themes.items[1].t = "dict"
    /\ themes.items[1].keys = {"theme", "description"}

\* C8 as stated: on a response that is not valid JSON the one theme's
\* description is the raw response text, character for character, leading and
\* trailing white space included.
C8_DescriptionVerbatim ==
    ThemeReplyNotJson
    => OneTheme /\ themes.items[1].description = last_reply.content

\* C8 as amended: on a response that is not valid JSON the list holds exactly
\* one theme, whose description is the response text with its leading and
\* trailing white space removed.
C8_DescriptionTrimmed ==
    ThemeReplyNotJson
    => OneTheme /\ IsTrimOf(themes.items[1].description, last_reply.content)

\* C8 witness: a prose response that starts and ends with white space
C8_Witness ==
    /\ ThemeReplyNotJson
    /\ last_reply.content = <<"WS", "WORD", "WS">>
    /\ processed_data.themes.items[1].description = <<"WORD">>

\* a sequence whose elements are all Theme objects
IsThemeList(v) ==
    /\ v.t = "list"
    /\ \A i \in 1..Len(v.items) :
          /\ v.items[i].t = "dict"
          /\ {"theme", "description"} \subseteq v.items[i].keys

\* C9: whatever the endpoint answers, what _find_common_themes returns, and so
\* the themes of the bundle, is a sequence of Theme objects.
C9_ThemesIsThemeList ==
    pc \in Returned => IsThemeList(themes) /\ IsThemeList(processed_data.themes)

\* C10: process_meetings on the empty list returns total_meetings = 0 and
\* empty upcoming_meetings, recent_minutes and themes, whatever the endpoint
\* answers to the theme prompt.
C10_EmptyInputEmptyBundle ==
    (pc \in Returned /\ meetings_data = <<>>)
    => /\ processed_data.total_meetings = 0
       /\ processed_data.upcoming_meetings = <<>>
       /\ processed_data.recent_minutes = <<>>
       /\ processed_data.themes = PyList(<<>>)

\* the positions, in page order, of the anchors whose href holds MeetingDetail
DetailPositions(anchors) ==
    {i \in 1..Len(anchors) : href_matches(anchors[i].href)}

\* the j-th smallest element of a set of positions
NthPosition(S, j) ==
    CHOOSE i \in S : Cardinality({x \in S : x <= i}) = j

\* C11: the Legistar parser emits exactly one record per anchor whose href
\* matches MeetingDetail, in page order, whatever week_start and week_end are;
\* each record has the anchor's visible (stripped) text as title,
\* base_url + href as agenda_url, source legistar, and the wall-clock time of
\* parsing as date.
C11_OneRecordPerDetailLink ==
    pc = "legistar_done" =>
        LET anchors == fetched[1].links
            D == DetailPositions(anchors)
        IN  /\ Len(all_meetings) = Cardinality(D)
            /\ \A j \in 1..Len(all_meetings) :
                  LET a == anchors[NthPosition(D, j)]
                      r == all_meetings[j]
                  IN  /\ IsTrimOf(r.title, a.text)
                      /\ r.agenda_url = <<sources[2].base_url, a.href>>
                      /\ r.source = "legistar"
                      /\ r.date = isoformat([t |-> now, aware |-> FALSE])

\* C11 witness: a page with an anchor that is not a meeting link and one
\* that is, parsed at a time outside the week window; the record is there
C11_Witness ==
    /\ pc = "legistar_done"
    /\ ~in_target_week(week_start, now, week_end)
    /\ \E i \in 1..Len(fetched[1].links) :
          ~href_matches(fetched[1].links[i].href)
    /\ Len(all_meetings) = 1
    /\ all_meetings[1].title = <<"Planning Session">>

\* every remote AI call of the run raised, and there was at least one
AllCallsFailed == ai_calls >= 1 /\ ai_failures = ai_calls

\* the five output files of a run, in the order main writes them
OutputFiles ==
    <<"meeting-summaries.txt", "themes-connections.txt",
      "podcast-guidelines.txt", "latest-meetings.json", "latest-data.js">>

\* C12: when at least one meeting was scraped and every remote AI call
\* raised, the run does not end in error: once it is over the bundle has
\* themes = [] and exactly one entry per scraped meeting, each with the
\* fallback summary, and the three text files, latest-meetings.json and
\* latest-data.js have been written.
C12_AllCallsFailRunCompletes ==
    (pc \in {"done", "crashed"} /\ meetings_data # <<>> /\ AllCallsFailed)
    => /\ pc = "done"
       /\ processed_data.themes = PyList(<<>>)
       /\ Len(processed_data.upcoming_meetings)
              + Len(processed_data.recent_minutes) = Len(meetings_data)
       /\ \A i \in 1..Len(processed_data.upcoming_meetings) :
              processed_data.upcoming_meetings[i].summary = AgendaFallback
       /\ \A i \in 1..Len(processed_data.recent_minutes) :
              processed_data.recent_minutes[i].summary = MinutesFallback
       /\ files = OutputFiles

\* positions of process_meetings in which a completion call is being made
AiCalling ==
    {"proc_up", "proc_up_wait", "proc_rec", "proc_rec_wait", "themes",
     "themes_wait"}

\* positions of main after process_meetings has returned
Emitting ==
    {"pm_return", "gen_themes", "gen_guidelines", "gen_return", "update_web",
     "done", "crashed"}

\* seq is an initial part of full
IsPrefix(seq, full) ==
    Len(seq) <= Len(full) /\ seq = SubSeq(full, 1, Len(seq))

\* what holds in every state of a strictly sequential run
StepOrderState ==
    /\ in_flight <= 1
    /\ Len(fetched) = src_i - 1
    /\ MaskedSeq(all_meetings) = MaskedSeq(RecordsUpTo(Len(fetched)))
    /\ (ai_calls > 0 \/ pc \in AiCalling)
           => /\ Len(fetched) = Len(sources)
              /\ all_meetings = meetings_data
    /\ files # <<>> => pc \in Emitting /\ meetings_data # <<>>
    /\ pc \in Emitting \ {"done"}
           => in_flight = 0 /\ last_reply.call = "themes"
    /\ IsPrefix(files, OutputFiles)
    /\ (\E i \in 1..Len(files) : files[i] = "latest-data.js")
           => /\ pc = "done"
              /\ files = OutputFiles
              /\ Len(fetched) = Len(sources)
              /\ processed_data.total_meetings = Len(meetings_data)

\* what holds of every step of a strictly sequential run
StepOrderStep ==
    /\ in_flight' > in_flight => in_flight = 0
    /\ src_i' # src_i => src_i' = src_i + 1 /\ Len(fetched') = src_i
    /\ fetched' # fetched => ai_calls = 0 /\ pc' \in Scraping
    /\ ai_calls' # ai_calls
           => /\ ai_calls' = ai_calls + 1
              /\ files' = <<>>
              /\ fetched' = fetched
              /\ all_meetings' = all_meetings
    /\ files' # files
           => /\ Len(files') = Len(files) + 1
              /\ ai_calls' = ai_calls
              /\ in_flight' = 0
              /\ processed_data' = processed_data

\* C13: a run is strictly sequential with a fixed step order: the sources are
\* scraped one at a time in configuration order and their records
\* concatenated in that order; scraping is over before the first AI call; at
\* most one remote call is in flight; AI processing is over before any file
\* is written; the files are written in the order text files,
\* latest-meetings.json, latest-data.js, so latest-data.js is written only
\* when every earlier step was carried out.
C13_StrictlySequential ==
    []StepOrderState /\ [][StepOrderStep]_vars

\* C13 witness: a run that scraped meetings from two sources, made more than
\* one remote AI call and wrote all five files
C13_Witness ==
    /\ pc = "done"
    /\ files = OutputFiles
    /\ fetched[1].ok
    /\ fetched[2].ok
    /\ Len(meetings_data) >= 2
    /\ ai_calls >= 3
    /\ in_flight = 0

\* the three documents generate_files writes, in its order
TextFiles ==
    <<"meeting-summaries.txt", "themes-connections.txt",
      "podcast-guidelines.txt">>

\* C14: whatever bundle process_meetings returned, generate_files ends
\* without raising and has written its three text documents; a meeting with
\* an unparsable date, which is in recent_minutes, does not make it fail.
C14_GenerateFilesCompletes ==
    pc \in {"gen_return", "crashed"}
    => /\ pc = "gen_return"
       /\ files = TextFiles

=============================================================================
